---- MODULE Spec2Model ----
(***************************************************************************)
(* Model of factory/libgemini/ramp_calibration.py: the manual ramp         *)
(* calibration of the two oscillators (Castor = 0, Pollux = 1).            *)
(*                                                                         *)
(* A Python dict is modelled as the sequence of its items in insertion     *)
(* order, each item a record [period, code].  Python indices are 0-based;  *)
(* item number n of a dict is element n + 1 of the sequence.               *)
(* Floating point arithmetic is modelled by exact rationals <<num, den>>.  *)
(***************************************************************************)
EXTENDS Integers, Sequences, FiniteSets, TLC

VARIABLES
    reference,            \* reference_calibration.castor (never written)
    period_to_dac_code,   \* the module-level table (line 18)
    save,                 \* argument of run(): not args.dry_run
    pc,                   \* position in run() / _calibrate_oscillator()
    fault,                \* why the run stopped early ("none" while running)
    gate_passed,          \* interactive.continue_when_ready() has returned
    oscillator,           \* argument of the active _calibrate_oscillator()
    n,                    \* loop index of the sweep
    period,               \* loop variable: the current timer period
    dac_code,             \* loop variable / starting guess of the seek
    last_dac_code,        \* sweep local
    charge_code,          \* _manual_seek local
    calibrated_code,      \* sweep local: the value _manual_seek returned
    castor_calibration,   \* run() local, <<>> until the Castor sweep returns
    pollux_calibration,   \* run() local, <<>> until the Pollux sweep returns
    local_copy,           \* the JSON files written (one element per json.dump)
    lut,                  \* write_lut_entry / write_lut calls the device received
    lut_n,                \* loop index of the upload loop
    checksum,             \* run() local
    adjusts,              \* number of values the operator has yielded so far
    accepted,             \* per oscillator: the codes _manual_seek returned so far
    lowered,              \* per oscillator: a seek returned less than its starting guess
    sweep_order,          \* the oscillators the sweeps' calls addressed, in order
    freq,                 \* sweep local frequency (line 100), handed to _set_scope_time_division
    time_division,        \* the scope's time division, as last set
    dac,                  \* the device's DAC codes, per channel, as last set (-1: never)
    seek_writes,          \* the codes the current _manual_seek has written, in order
    periods_set,          \* the periods the current sweep has set, in order
    fault_at,             \* the position at which the run stopped early
    calls                 \* device and scope calls issued by the latest step

vars == <<reference, period_to_dac_code, save, pc, fault, gate_passed, oscillator,
          n, period, dac_code, last_dac_code, charge_code, calibrated_code,
          castor_calibration, pollux_calibration, local_copy, lut, lut_n,
          checksum, adjusts, accepted, lowered,
          sweep_order, freq, time_division, dac, seek_writes, periods_set,
          fault_at, calls>>

----------------------------------------------------------------------------
(* Bounds of the model *)

\* longest reference table
MaxLen == 4
\* values the operator yields in one run, over all seeks
MaxAdjust == 2

\* values the operator's adjuster yields (it clamps to 0..4095)
AdjustValues == {0, 2000, 4095}
\* readbacks of scope.get_max, in volts
Readbacks == {0, 3}

(* Program constants *)

MaxCode == 4095
AVERAGE_COUNT == 2
TickRate == 120000

----------------------------------------------------------------------------
(* Rationals <<num, den>> with den > 0, in lowest terms *)

Abs(x) == IF x < 0 THEN -x ELSE x

RECURSIVE GCD(_, _)
GCD(a, b) == IF b = 0 THEN a ELSE GCD(b, a % b)

Rat(num, den) ==
    LET s == IF den < 0 THEN -1 ELSE 1
        g == GCD(Abs(num), Abs(den))
    IN  <<(s * num) \div g, (s * den) \div g>>

RatInt(i) == <<i, 1>>
RatAdd(x, y) == Rat(x[1] * y[2] + y[1] * x[2], x[2] * y[2])
RatSub(x, y) == Rat(x[1] * y[2] - y[1] * x[2], x[2] * y[2])
RatMul(x, y) == Rat(x[1] * y[1], x[2] * y[2])
RatDiv(x, y) == Rat(x[1] * y[2], x[2] * y[1])
RatGt(x, i) == x[1] > i * x[2]

\* Python's round(): to the nearest integer, ties to the even one
Round(x) ==
    LET q == x[1] \div x[2]
        r == x[1] % x[2]
    IN  IF 2 * r < x[2] THEN q
        ELSE IF 2 * r > x[2] THEN q + 1
        ELSE IF q % 2 = 0 THEN q ELSE q + 1

Min(a, b) == IF a < b THEN a ELSE b

----------------------------------------------------------------------------
(* Dicts *)

Item(p, c) == [period |-> p, code |-> c]

Keys(d) == [i \in 1..Len(d) |-> d[i].period]
Values(d) == [i \in 1..Len(d) |-> d[i].code]
HasKey(d, p) == \E i \in 1..Len(d) : d[i].period = p
DictGet(d, p) == d[CHOOSE i \in 1..Len(d) : d[i].period = p].code

\* d[p] = c: an existing key keeps its position, a new key is appended
DictSet(d, p, c) ==
    IF HasKey(d, p)
    THEN [i \in 1..Len(d) |-> IF d[i].period = p THEN Item(p, c) ELSE d[i]]
    ELSE Append(d, Item(p, c))

DictCopy(d) == d

----------------------------------------------------------------------------
(* oscillators.timer_period_to_frequency *)

timer_period_to_frequency(p) == Rat(TickRate, p)

(* Mutant of set_scope_time_division: the first threshold is inclusive *)
set_scope_time_division_Inclusive(frequency) ==
    IF frequency[1] >= 1200 * frequency[2] THEN "100us"
    ELSE IF RatGt(frequency, 700) THEN "200us"
    ELSE IF RatGt(frequency, 180) THEN "500us"
    ELSE IF RatGt(frequency, 90) THEN "1ms"
    ELSE IF RatGt(frequency, 46) THEN "2ms"
    ELSE "5ms"

(* _set_scope_time_division: the division it sets *)
set_scope_time_division(frequency) ==
    IF RatGt(frequency, 1200) THEN "100us"
    ELSE IF RatGt(frequency, 700) THEN "200us"
    ELSE IF RatGt(frequency, 180) THEN "500us"
    ELSE IF RatGt(frequency, 90) THEN "1ms"
    ELSE IF RatGt(frequency, 46) THEN "2ms"
    ELSE "5ms"

(* Mutant of DacChannel: both oscillators on DAC channel 0 *)
DacChannel_AlwaysZero(osc) == 0

(* channel selection of _calibrate_oscillator; scope channel 1 = "c1", 2 = "c2" *)
ScopeChannel(osc) == IF osc = 0 THEN 1 ELSE 2
OtherScopeChannel(osc) == IF osc = 0 THEN 2 ELSE 1
DacChannel(osc) == IF osc = 0 THEN 0 ELSE 2

(* A device or scope call: who issued it, what, and its two first arguments *)
Call(by, op, a, b) == [by |-> by, op |-> op, a |-> a, b |-> b]


----------------------------------------------------------------------------
(* Mutant of ClampedCode: the clamp is left out *)
ClampedCode_NoClamp(code, last) == code

(* _calibrate_oscillator, lines 96-97: the monotonicity clamp *)
ClampedCode(code, last) == IF code < last THEN last ELSE code

(* Mutant of ExtrapolatedCode: the line through the two most recent items *)
ExtrapolatedCode_TwoMostRecent(table, k, frequency) ==
    LET y_1 == table[k].code
        y_2 == table[k - 1].code
        x_1 == timer_period_to_frequency(table[k].period)
        x_2 == timer_period_to_frequency(table[k - 1].period)
        slope == RatDiv(RatInt(y_2 - y_1), RatSub(x_2, x_1))
        y_intercept == RatSub(RatInt(y_2), RatMul(slope, x_2))
    IN  Min(MaxCode, Round(RatAdd(y_intercept, RatMul(slope, frequency))))

(* _calibrate_oscillator, lines 113-119: the guess from the line through the
   previous item and the first item of the table *)
ExtrapolatedCode(table, k, frequency) ==
    LET y_1 == table[k].code
        y_2 == table[1].code
        x_1 == timer_period_to_frequency(table[k].period)
        x_2 == timer_period_to_frequency(table[1].period)
        slope == RatDiv(RatInt(y_2 - y_1), RatSub(x_2, x_1))
        y_intercept == RatSub(RatInt(y_2), RatMul(slope, x_2))
    IN  Min(MaxCode, Round(RatAdd(y_intercept, RatMul(slope, frequency))))

(* Mutant of StartingGuess: the extrapolation starts one point late *)
StartingGuess_LateExtrapolation(table, k, last) ==
    IF k > 3
    THEN LET y_1 == table[k].code
             y_2 == table[1].code
             x_1 == timer_period_to_frequency(table[k].period)
             x_2 == timer_period_to_frequency(table[1].period)
             slope == RatDiv(RatInt(y_2 - y_1), RatSub(x_2, x_1))
             y_intercept == RatSub(RatInt(y_2), RatMul(slope, x_2))
         IN  Min(MaxCode, Round(RatAdd(y_intercept, RatMul(slope,
                 timer_period_to_frequency(table[k + 1].period)))))
    ELSE IF table[k + 1].code < last THEN last ELSE table[k + 1].code

(* _calibrate_oscillator, lines 93-120: the starting guess of point k (0-based) *)
StartingGuess(table, k, last) ==
    IF k > 2
    THEN ExtrapolatedCode(table, k, timer_period_to_frequency(table[k + 1].period))
    ELSE ClampedCode(table[k + 1].code, last)

(* Python's ^ on integers of any sign *)
RECURSIVE XorNat(_, _)
XorNat(a, b) ==
    IF a = 0 THEN b
    ELSE IF b = 0 THEN a
    ELSE 2 * XorNat(a \div 2, b \div 2) + (IF (a % 2) = (b % 2) THEN 0 ELSE 1)

Xor(a, b) ==
    IF a >= 0 /\ b >= 0 THEN XorNat(a, b)
    ELSE IF a < 0 /\ b < 0 THEN XorNat(-a - 1, -b - 1)
    ELSE IF a < 0 THEN -XorNat(-a - 1, b) - 1
    ELSE -XorNat(a, -b - 1) - 1

RECURSIVE XorAll(_)
XorAll(s) == IF s = <<>> THEN 0 ELSE Xor(XorAll(SubSeq(s, 1, Len(s) - 1)), s[Len(s)])

(* The oscillator a call of a sweep addresses: set_period names it, set_dac
   names its DAC channel, the scope calls name its scope channel *)
OscillatorOf(call) ==
    IF call.op = "set_period" THEN call.a
    ELSE IF call.op = "set_dac" THEN (IF call.a = 0 THEN 0 ELSE 1)
    ELSE IF call.a = 1 THEN 0 ELSE 1

RECURSIVE Noted(_, _)
Noted(order, cs) ==
    IF cs = <<>> THEN order
    ELSE LET c == Head(cs)
             o == IF c.by = "run" \/ c.op = "set_time_division" \/ c.op = "disable_channel"
                  THEN order
                  ELSE IF order # <<>> /\ order[Len(order)] = OscillatorOf(c)
                  THEN order
                  ELSE Append(order, OscillatorOf(c))
         IN  Noted(o, Tail(cs))

----------------------------------------------------------------------------
(* The reference tables the model starts from: periods 100, 200, ... with
   codes ascending or descending *)
SeedTable(len, ascending) ==
    [i \in 1..len |-> Item(100 * i, IF ascending THEN 10 * i ELSE 10 * (len + 1 - i))]

Init ==
    /\ \E len \in 1..MaxLen, ascending \in BOOLEAN :
          reference = SeedTable(len, ascending)
    /\ period_to_dac_code = DictCopy(reference)
    /\ save \in BOOLEAN
    /\ pc = "connect"
    /\ fault = "none"
    /\ gate_passed = FALSE
    /\ oscillator = 0
    /\ n = 0
    /\ period = 0
    /\ dac_code = 0
    /\ last_dac_code = 0
    /\ charge_code = 0
    /\ calibrated_code = 0
    /\ castor_calibration = <<>>
    /\ pollux_calibration = <<>>
    /\ local_copy = <<>>
    /\ lut = <<>>
    /\ lut_n = 0
    /\ checksum = 0
    /\ adjusts = 0
    /\ accepted = [o \in {0, 1} |-> <<>>]
    /\ lowered = [o \in {0, 1} |-> FALSE]
    /\ sweep_order = <<>>
    /\ freq = RatInt(0)
    /\ time_division = "unset"
    /\ dac = [channel \in {0, 2} |-> -1]
    /\ seek_writes = <<>>
    /\ periods_set = <<>>
    /\ fault_at = "none"
    /\ calls = <<>>

sweepVars == <<oscillator, n, period, dac_code, last_dac_code, charge_code,
               calibrated_code, accepted, lowered>>
runVars == <<castor_calibration, pollux_calibration, local_copy, lut, lut_n, checksum>>

(* run, lines 142-143 *)
Connect ==
    /\ pc = "connect"
    /\ calls' = <<Call("run", "enter_calibration_mode", 0, 0)>>
    /\ pc' = "seed_registers"
    /\ sweep_order' = Noted(sweep_order, calls')
    /\ UNCHANGED <<freq, time_division, dac, seek_writes, periods_set, fault_at>>
    /\ UNCHANGED <<reference, period_to_dac_code, save, fault, gate_passed, adjusts,
                   sweepVars, runVars>>

(* run, lines 145-151 *)
SeedRegisters ==
    /\ pc = "seed_registers"
    /\ LET initial_period == period_to_dac_code[1].period
           initial_dac_code == period_to_dac_code[1].code
       IN  calls' = <<Call("run", "set_period", 0, initial_period),
                      Call("run", "set_dac", 0, initial_dac_code),
                      Call("run", "set_period", 1, initial_period),
                      Call("run", "set_dac", 2, initial_dac_code)>>
    /\ pc' = "scope_setup"
    /\ sweep_order' = Noted(sweep_order, calls')
    /\ dac' = [channel \in {0, 2} |-> period_to_dac_code[1].code]
    /\ UNCHANGED <<freq, time_division, seek_writes, periods_set, fault_at>>
    /\ UNCHANGED <<reference, period_to_dac_code, save, fault, gate_passed, adjusts,
                   sweepVars, runVars>>

(* Mutant of ScopeSetup: the sweeps start without waiting for the operator *)
ScopeSetup_NoGate ==
    /\ pc = "scope_setup"
    /\ calls' = <<Call("run", "enable_channel", 1, 0),
                  Call("run", "enable_channel", 2, 0)>>
    /\ sweep_order' = Noted(sweep_order, calls')
    /\ time_division' = "10ms"
    /\ UNCHANGED <<freq, dac, seek_writes, periods_set, fault_at>>
    /\ pc' = "castor"
    /\ UNCHANGED <<reference, period_to_dac_code, save, fault, gate_passed, adjusts,
                   sweepVars, runVars>>

(* run, lines 155-170 *)
ScopeSetup ==
    /\ pc = "scope_setup"
    /\ calls' = <<Call("run", "enable_channel", 1, 0),
                  Call("run", "enable_channel", 2, 0)>>
    /\ pc' = "gate"
    /\ sweep_order' = Noted(sweep_order, calls')
    /\ time_division' = "10ms"
    /\ UNCHANGED <<freq, dac, seek_writes, periods_set, fault_at>>
    /\ UNCHANGED <<reference, period_to_dac_code, save, fault, gate_passed, adjusts,
                   sweepVars, runVars>>

(* run, line 175: the operator presses the key *)
ContinueWhenReady ==
    /\ pc = "gate"
    /\ gate_passed' = TRUE
    /\ calls' = <<>>
    /\ pc' = "castor"
    /\ sweep_order' = Noted(sweep_order, calls')
    /\ UNCHANGED <<freq, time_division, dac, seek_writes, periods_set, fault_at>>
    /\ UNCHANGED <<reference, period_to_dac_code, save, fault, adjusts,
                   sweepVars, runVars>>


(* run, lines 179 and 188: the oscillator each call of _calibrate_oscillator gets *)
SweepOscillator(position) == IF position = "castor" THEN 0 ELSE 1

(* the time divisions, in microseconds *)
DivisionMicros(division) ==
    CASE division = "100us" -> 100
      [] division = "200us" -> 200
      [] division = "500us" -> 500
      [] division = "1ms" -> 1000
      [] division = "2ms" -> 2000
      [] division = "5ms" -> 5000
      [] division = "10ms" -> 10000

(* _calibrate_oscillator, lines 65-91 *)
CalibrateOscillatorBegin ==
    /\ pc \in {"castor", "pollux"}
    /\ LET osc == SweepOscillator(pc)
       IN  /\ oscillator' = osc
           /\ calls' = <<Call("sweep", "enable_channel", ScopeChannel(osc), 0),
                         Call("sweep", "disable_channel", OtherScopeChannel(osc), 0),
                         Call("sweep", "set_trigger_level", ScopeChannel(osc), 0),
                         Call("sweep", "show_measurement", ScopeChannel(osc), 0),
                         Call("sweep", "set_time_division", DivisionMicros("10ms"), 0)>>
           /\ accepted' = [accepted EXCEPT ![osc] = <<>>]
           /\ lowered' = [lowered EXCEPT ![osc] = FALSE]
    /\ last_dac_code' = 0
    /\ n' = 0
    /\ pc' = "loop"
    /\ sweep_order' = Noted(sweep_order, calls')
    /\ time_division' = "10ms"
    /\ periods_set' = <<>>
    /\ seek_writes' = <<>>
    /\ UNCHANGED <<freq, dac, fault_at>>
    /\ UNCHANGED <<reference, period_to_dac_code, save, fault, gate_passed, adjusts,
                   period, dac_code, charge_code, calibrated_code, runVars>>

(* _calibrate_oscillator, lines 93-120: the head of one iteration *)
PointGuess ==
    /\ pc = "loop"
    /\ n < Len(period_to_dac_code)
    /\ IF Len(period_to_dac_code) - 1 = 0
       THEN \* line 94 divides by zero
            /\ pc' = "aborted"
            /\ fault' = "ZeroDivisionError"
            /\ calls' = <<>>
            /\ fault_at' = pc
            /\ UNCHANGED <<period, dac_code, freq, time_division>>
       ELSE /\ period' = period_to_dac_code[n + 1].period
            /\ dac_code' = StartingGuess(period_to_dac_code, n, last_dac_code)
            /\ calls' = <<Call("sweep", "set_time_division",
                               DivisionMicros(set_scope_time_division(
                                   timer_period_to_frequency(
                                       period_to_dac_code[n + 1].period))), 0)>>
            /\ freq' = timer_period_to_frequency(period_to_dac_code[n + 1].period)
            /\ time_division' = set_scope_time_division(freq')
            /\ pc' = "set_period"
            /\ UNCHANGED <<fault, fault_at>>
    /\ sweep_order' = Noted(sweep_order, calls')
    /\ UNCHANGED <<dac, seek_writes, periods_set>>
    /\ UNCHANGED <<reference, period_to_dac_code, save, gate_passed, adjusts,
                   oscillator, n, last_dac_code, charge_code, calibrated_code,
                   accepted, lowered, runVars>>

(* Mutant of SetPeriod: the device is always given the first period *)
SetPeriod_FirstPeriod ==
    /\ pc = "set_period"
    /\ calls' = <<Call("sweep", "set_period", oscillator, period_to_dac_code[1].period)>>
    /\ pc' = "seek"
    /\ sweep_order' = Noted(sweep_order, calls')
    /\ periods_set' = Append(periods_set, period_to_dac_code[1].period)
    /\ UNCHANGED <<freq, time_division, dac, seek_writes, fault_at>>
    /\ UNCHANGED <<reference, period_to_dac_code, save, fault, gate_passed, adjusts,
                   sweepVars, runVars>>

(* _calibrate_oscillator, line 122 *)
SetPeriod ==
    /\ pc = "set_period"
    /\ calls' = <<Call("sweep", "set_period", oscillator, period)>>
    /\ pc' = "seek"
    /\ sweep_order' = Noted(sweep_order, calls')
    /\ periods_set' = Append(periods_set, period)
    /\ UNCHANGED <<freq, time_division, dac, seek_writes, fault_at>>
    /\ UNCHANGED <<reference, period_to_dac_code, save, fault, gate_passed, adjusts,
                   sweepVars, runVars>>

(* _manual_seek, lines 33-35 *)
SeekBegin ==
    /\ pc = "seek"
    /\ charge_code' = dac_code
    /\ calls' = <<Call("seek", "set_dac", DacChannel(oscillator), dac_code)>>
    /\ pc' = "adjust"
    /\ sweep_order' = Noted(sweep_order, calls')
    /\ dac' = [dac EXCEPT ![DacChannel(oscillator)] = dac_code]
    /\ seek_writes' = <<dac_code>>
    /\ UNCHANGED <<freq, time_division, periods_set, fault_at>>
    /\ UNCHANGED <<reference, period_to_dac_code, save, fault, gate_passed, adjusts,
                   oscillator, n, period, dac_code, last_dac_code, calibrated_code,
                   accepted, lowered, runVars>>

(* Mutant of Adjust: the yielded value is kept but not written to the DAC *)
Adjust_NoWrite(value) ==
    /\ pc = "adjust"
    /\ adjusts < MaxAdjust
    /\ adjusts' = adjusts + 1
    /\ charge_code' = value
    /\ calls' = <<>>
    /\ sweep_order' = Noted(sweep_order, calls')
    /\ UNCHANGED <<freq, time_division, dac, seek_writes, periods_set, fault_at>>
    /\ UNCHANGED <<reference, period_to_dac_code, save, pc, fault, gate_passed,
                   oscillator, n, period, dac_code, last_dac_code, calibrated_code,
                   accepted, lowered, runVars>>

(* _manual_seek, lines 38-44: the adjuster yields a value *)
Adjust(value) ==
    /\ pc = "adjust"
    /\ adjusts < MaxAdjust
    /\ adjusts' = adjusts + 1
    /\ charge_code' = value
    /\ calls' = <<Call("seek", "set_dac", DacChannel(oscillator), value)>>
    /\ sweep_order' = Noted(sweep_order, calls')
    /\ dac' = [dac EXCEPT ![DacChannel(oscillator)] = value]
    /\ seek_writes' = Append(seek_writes, value)
    /\ UNCHANGED <<freq, time_division, periods_set, fault_at>>
    /\ UNCHANGED <<reference, period_to_dac_code, save, pc, fault, gate_passed,
                   oscillator, n, period, dac_code, last_dac_code, calibrated_code,
                   accepted, lowered, runVars>>

(* Mutant of SeekReturn: the Castor sweep returned the shared table itself, so
   that a write of the Pollux sweep shows in the table run holds as Castor's *)
SeekReturn_WritesAlias ==
    /\ pc = "adjust"
    /\ calibrated_code' = charge_code
    /\ period_to_dac_code' = DictSet(period_to_dac_code, period, charge_code)
    /\ castor_calibration' = IF castor_calibration # <<>>
                             THEN period_to_dac_code'
                             ELSE castor_calibration
    /\ accepted' = [accepted EXCEPT ![oscillator] = Append(@, charge_code)]
    /\ lowered' = [lowered EXCEPT ![oscillator] = @ \/ charge_code < dac_code]
    /\ calls' = <<>>
    /\ pc' = "measure"
    /\ sweep_order' = Noted(sweep_order, calls')
    /\ UNCHANGED <<freq, time_division, dac, seek_writes, periods_set, fault_at>>
    /\ UNCHANGED <<reference, save, fault, gate_passed, adjusts, oscillator, n, period,
                   dac_code, last_dac_code, charge_code, pollux_calibration,
                   local_copy, lut, lut_n, checksum>>

(* _manual_seek, line 46, and _calibrate_oscillator, lines 124-126 *)
SeekReturn ==
    /\ pc = "adjust"
    /\ calibrated_code' = charge_code
    /\ period_to_dac_code' = DictSet(period_to_dac_code, period, charge_code)
    /\ accepted' = [accepted EXCEPT ![oscillator] = Append(@, charge_code)]
    /\ lowered' = [lowered EXCEPT ![oscillator] = @ \/ charge_code < dac_code]
    /\ calls' = <<>>
    /\ pc' = "measure"
    /\ sweep_order' = Noted(sweep_order, calls')
    /\ UNCHANGED <<freq, time_division, dac, seek_writes, periods_set, fault_at>>
    /\ UNCHANGED <<reference, save, fault, gate_passed, adjusts, oscillator, n, period,
                   dac_code, last_dac_code, charge_code, runVars>>

(* Mutant of Measure: the clamp value is the previous guess, not the accepted code *)
Measure_LastIsGuess ==
    /\ pc = "measure"
    /\ \E readings \in [1..AVERAGE_COUNT -> Readbacks] :
          calls' = [i \in 1..AVERAGE_COUNT |->
                       Call("measure", "get_max", ScopeChannel(oscillator), readings[i])]
    /\ last_dac_code' = dac_code
    /\ n' = n + 1
    /\ pc' = "loop"
    /\ sweep_order' = Noted(sweep_order, calls')
    /\ UNCHANGED <<freq, time_division, dac, seek_writes, periods_set, fault_at>>
    /\ UNCHANGED <<reference, period_to_dac_code, save, fault, gate_passed, adjusts,
                   oscillator, period, dac_code, charge_code, calibrated_code,
                   accepted, lowered, runVars>>

(* Mutant of Measure: a zero readback resets the clamp value *)
Measure_UsesMagnitude ==
    /\ pc = "measure"
    /\ \E readings \in [1..AVERAGE_COUNT -> Readbacks] :
          calls' = [i \in 1..AVERAGE_COUNT |->
                       Call("measure", "get_max", ScopeChannel(oscillator), readings[i])]
    /\ last_dac_code' = IF calls'[1].b + calls'[2].b > 0 THEN calibrated_code ELSE 0
    /\ n' = n + 1
    /\ pc' = "loop"
    /\ sweep_order' = Noted(sweep_order, calls')
    /\ UNCHANGED <<freq, time_division, dac, seek_writes, periods_set, fault_at>>
    /\ UNCHANGED <<reference, period_to_dac_code, save, fault, gate_passed, adjusts,
                   oscillator, period, dac_code, charge_code, calibrated_code,
                   accepted, lowered, runVars>>

(* _measure_max, lines 26-29, and _calibrate_oscillator, lines 128-134 *)
Measure ==
    /\ pc = "measure"
    /\ \E readings \in [1..AVERAGE_COUNT -> Readbacks] :
          calls' = [i \in 1..AVERAGE_COUNT |->
                       Call("measure", "get_max", ScopeChannel(oscillator), readings[i])]
    /\ last_dac_code' = calibrated_code
    /\ n' = n + 1
    /\ pc' = "loop"
    /\ sweep_order' = Noted(sweep_order, calls')
    /\ UNCHANGED <<freq, time_division, dac, seek_writes, periods_set, fault_at>>
    /\ UNCHANGED <<reference, period_to_dac_code, save, fault, gate_passed, adjusts,
                   oscillator, period, dac_code, charge_code, calibrated_code,
                   accepted, lowered, runVars>>

(* _calibrate_oscillator, line 136, and run, lines 179 and 188 *)
SweepReturn ==
    /\ pc = "loop"
    /\ n = Len(period_to_dac_code)
    /\ IF oscillator = 0
       THEN /\ castor_calibration' = DictCopy(period_to_dac_code)
            /\ pc' = "pollux"
            /\ UNCHANGED pollux_calibration
       ELSE /\ pollux_calibration' = DictCopy(period_to_dac_code)
            /\ pc' = "save"
            /\ UNCHANGED castor_calibration
    /\ calls' = <<>>
    /\ sweep_order' = Noted(sweep_order, calls')
    /\ UNCHANGED <<freq, time_division, dac, seek_writes, periods_set, fault_at>>
    /\ UNCHANGED <<reference, period_to_dac_code, save, fault, gate_passed, adjusts,
                   sweepVars, local_copy, lut, lut_n, checksum>>


(* Mutant of SaveLocalCopy: a dry run writes no local copy *)
SaveLocalCopy_OnlyOnUpload ==
    /\ pc = "save"
    /\ local_copy' = IF save
                     THEN Append(local_copy, [castor |-> castor_calibration,
                                              pollux |-> pollux_calibration])
                     ELSE local_copy
    /\ lut_n' = 0
    /\ calls' = <<>>
    /\ sweep_order' = Noted(sweep_order, calls')
    /\ UNCHANGED <<freq, time_division, dac, seek_writes, periods_set, fault_at>>
    /\ pc' = IF save THEN "upload" ELSE "close"
    /\ UNCHANGED <<reference, period_to_dac_code, save, fault, gate_passed, adjusts,
                   sweepVars, castor_calibration, pollux_calibration, lut, checksum>>

(* run, lines 198-210: the local JSON copy, then the branch on save *)
SaveLocalCopy ==
    /\ pc = "save"
    /\ local_copy' = Append(local_copy, [castor |-> castor_calibration,
                                         pollux |-> pollux_calibration])
    /\ lut_n' = 0
    /\ calls' = <<>>
    /\ pc' = IF save THEN "upload" ELSE "close"
    /\ sweep_order' = Noted(sweep_order, calls')
    /\ UNCHANGED <<freq, time_division, dac, seek_writes, periods_set, fault_at>>
    /\ UNCHANGED <<reference, period_to_dac_code, save, fault, gate_passed, adjusts,
                   sweepVars, castor_calibration, pollux_calibration, lut, checksum>>

(* Mutant of LutEntry: the entries are numbered from 1 *)
LutEntry_OneBased(index, timer_period, castor_code, pollux_code) ==
    [op |-> "write_lut_entry", n |-> index + 1, period |-> timer_period,
     castor_code |-> castor_code, pollux_code |-> pollux_code]

(* Mutant of LutEntry: the two codes change places *)
LutEntry_SwappedCodes(index, timer_period, castor_code, pollux_code) ==
    [op |-> "write_lut_entry", n |-> index, period |-> timer_period,
     castor_code |-> pollux_code, pollux_code |-> castor_code]

(* run, line 230: the arguments of write_lut_entry *)
LutEntry(index, timer_period, castor_code, pollux_code) ==
    [op |-> "write_lut_entry", n |-> index, period |-> timer_period,
     castor_code |-> castor_code, pollux_code |-> pollux_code]

LutCommit == [op |-> "write_lut", n |-> 0, period |-> 0, castor_code |-> 0, pollux_code |-> 0]

(* run, lines 217-234: one iteration of the upload loop *)
WriteLutEntry ==
    /\ pc = "upload"
    /\ lut_n < Len(castor_calibration)
    /\ LET timer_period == castor_calibration[lut_n + 1].period
       IN  IF Len(castor_calibration) - 1 = 0
           THEN \* line 218 divides by zero
                /\ pc' = "aborted"
                /\ fault' = "ZeroDivisionError"
                /\ calls' = <<>>
                /\ fault_at' = pc
                /\ UNCHANGED <<lut, lut_n>>
           ELSE IF ~HasKey(pollux_calibration, timer_period)
           THEN \* line 228
                /\ pc' = "aborted"
                /\ fault' = "KeyError"
                /\ calls' = <<>>
                /\ fault_at' = pc
                /\ UNCHANGED <<lut, lut_n>>
           ELSE /\ lut' = Append(lut, LutEntry(lut_n, timer_period,
                                               DictGet(castor_calibration, timer_period),
                                               DictGet(pollux_calibration, timer_period)))
                /\ calls' = <<Call("run", "write_lut_entry", lut_n, timer_period)>>
                /\ lut_n' = lut_n + 1
                /\ UNCHANGED <<pc, fault, fault_at>>
    /\ sweep_order' = Noted(sweep_order, calls')
    /\ UNCHANGED <<freq, time_division, dac, seek_writes, periods_set>>
    /\ UNCHANGED <<reference, period_to_dac_code, save, gate_passed, adjusts,
                   sweepVars, castor_calibration, pollux_calibration, local_copy,
                   checksum>>

(* Mutant of WriteLut: the Pollux codes enter the checksum too *)
WriteLut_AllCodes ==
    /\ pc = "upload"
    /\ lut_n = Len(castor_calibration)
    /\ lut' = Append(lut, LutCommit)
    /\ calls' = <<Call("run", "write_lut", 0, 0)>>
    /\ checksum' = Xor(XorAll(Values(castor_calibration)),
                     XorAll(Values(pollux_calibration)))
    /\ pc' = "close"
    /\ sweep_order' = Noted(sweep_order, calls')
    /\ UNCHANGED <<freq, time_division, dac, seek_writes, periods_set, fault_at>>
    /\ UNCHANGED <<reference, period_to_dac_code, save, fault, gate_passed, adjusts,
                   sweepVars, castor_calibration, pollux_calibration, local_copy,
                   lut_n>>

(* run, lines 236-243: the commit and the checksum *)
WriteLut ==
    /\ pc = "upload"
    /\ lut_n = Len(castor_calibration)
    /\ lut' = Append(lut, LutCommit)
    /\ calls' = <<Call("run", "write_lut", 0, 0)>>
    /\ checksum' = XorAll(Values(castor_calibration))
    /\ pc' = "close"
    /\ sweep_order' = Noted(sweep_order, calls')
    /\ UNCHANGED <<freq, time_division, dac, seek_writes, periods_set, fault_at>>
    /\ UNCHANGED <<reference, period_to_dac_code, save, fault, gate_passed, adjusts,
                   sweepVars, castor_calibration, pollux_calibration, local_copy,
                   lut_n>>

(* run, lines 248-251 *)
Close ==
    /\ pc = "close"
    /\ calls' = <<Call("run", "close", 0, 0)>>
    /\ pc' = "done"
    /\ sweep_order' = Noted(sweep_order, calls')
    /\ UNCHANGED <<freq, time_division, dac, seek_writes, periods_set, fault_at>>
    /\ UNCHANGED <<reference, period_to_dac_code, save, fault, gate_passed, adjusts,
                   sweepVars, runVars>>

(* The positions whose step talks to the device, the scope or the file system *)
FaultPoints == {"connect", "seed_registers", "scope_setup", "castor", "pollux", "loop",
                "set_period", "seek", "adjust", "measure", "save", "upload", "close"}

(* Mutant of Fault: the exception is caught and the run goes on *)
Fault_Swallowed ==
    /\ pc \in FaultPoints
    /\ pc' = pc
    /\ fault' = IF pc = "save" THEN "filesystem" ELSE "transport"
    /\ calls' = <<>>
    /\ sweep_order' = Noted(sweep_order, calls')
    /\ fault_at' = pc
    /\ UNCHANGED <<freq, time_division, dac, seek_writes, periods_set>>
    /\ UNCHANGED <<reference, period_to_dac_code, save, gate_passed, adjusts,
                   sweepVars, runVars>>

(* A call of a collaborator raises: nothing in the module catches it *)
Fault ==
    /\ pc \in FaultPoints
    /\ pc' = "aborted"
    /\ fault' = IF pc = "save" THEN "filesystem" ELSE "transport"
    /\ calls' = <<>>
    /\ sweep_order' = Noted(sweep_order, calls')
    /\ fault_at' = pc
    /\ UNCHANGED <<freq, time_division, dac, seek_writes, periods_set>>
    /\ UNCHANGED <<reference, period_to_dac_code, save, gate_passed, adjusts,
                   sweepVars, runVars>>

Next ==
    \/ Connect
    \/ SeedRegisters
    \/ ScopeSetup
    \/ ContinueWhenReady
    \/ CalibrateOscillatorBegin
    \/ PointGuess
    \/ SetPeriod
    \/ SeekBegin
    \/ \E value \in AdjustValues : Adjust(value)
    \/ SeekReturn
    \/ Measure
    \/ SweepReturn
    \/ SaveLocalCopy
    \/ WriteLutEntry
    \/ WriteLut
    \/ Close
    \/ Fault

Spec == Init /\ [][Next]_vars


----------------------------------------------------------------------------
(* Shorthands for the properties *)

NonDecreasing(s) == \A i, j \in 1..Len(s) : i < j => s[i] <= s[j]
CastorSweepDone == castor_calibration # <<>>
PolluxSweepDone == pollux_calibration # <<>>
InSweep == pc \in {"loop", "set_period", "seek", "adjust", "measure"}

----------------------------------------------------------------------------
(* C1, as stated: after a sweep completes the returned table's codes are
   non-decreasing in iteration order, whatever codes the seek returned. *)
C1_TableNonDecreasing ==
    /\ CastorSweepDone => NonDecreasing(Values(castor_calibration))
    /\ PolluxSweepDone => NonDecreasing(Values(pollux_calibration))

(* C1, amended: after a sweep completes the returned table holds the codes the
   seek returned, in order, and they are non-decreasing provided no seek of
   that sweep returned a code below its starting guess. *)
C1_NonDecreasingUnlessLowered ==
    /\ CastorSweepDone =>
          /\ Values(castor_calibration) = accepted[0]
          /\ ~lowered[0] => NonDecreasing(Values(castor_calibration))
    /\ PolluxSweepDone =>
          /\ Values(pollux_calibration) = accepted[1]
          /\ ~lowered[1] => NonDecreasing(Values(pollux_calibration))

(* C1, witness: a sweep of a four-point table with descending seed codes ends,
   no seek lowered its guess, and the clamp has changed the table. *)
C1_Witness ==
    /\ CastorSweepDone
    /\ ~lowered[0]
    /\ Len(reference) = 4
    /\ ~NonDecreasing(Values(reference))
    /\ NonDecreasing(Values(castor_calibration))

(* C2, as stated: the Pollux sweep starts from the reference seed: when it is
   entered, and for every period it has not reached yet, the table it reads
   equals the reference table. *)
C2_PolluxStartsFromSeed ==
    /\ pc = "pollux" => period_to_dac_code = reference
    /\ (InSweep /\ oscillator = 1) =>
          \A i \in 1..Len(period_to_dac_code) :
              i > n + 1 => period_to_dac_code[i] = reference[i]

(* C3, as stated: when the operator accepts every guess, the Castor sweep of
   the seed {100:10, 200:20, 300:30, 400:40} returns that seed. *)
C3_SeedExampleUnchanged ==
    (CastorSweepDone /\ adjusts = 0 /\ reference = SeedTable(4, TRUE))
        => castor_calibration = reference

(* the code the clamp passes at item i of a table when every guess is accepted:
   the largest code among the first i items, and at least 0 *)
RECURSIVE RunningMax(_, _)
RunningMax(table, i) ==
    IF i = 0 THEN 0
    ELSE LET m == RunningMax(table, i - 1)
         IN  IF table[i].code < m THEN m ELSE table[i].code

(* C3, amended: when the operator accepts every guess, the Castor sweep keeps
   the periods, returns the clamped seed codes at the first three points and the
   extrapolated guess at every later point; for the seed {100:10, 200:20,
   300:30, 400:40} it returns {100:10, 200:20, 300:30, 400:32}. *)
C3_AcceptedGuessesTable ==
    (CastorSweepDone /\ adjusts = 0) =>
        /\ Keys(castor_calibration) = Keys(reference)
        /\ \A i \in 1..Len(reference) :
              castor_calibration[i].code =
                  IF i <= 3 THEN RunningMax(reference, i)
                  ELSE ExtrapolatedCode(castor_calibration, i - 1,
                           timer_period_to_frequency(reference[i].period))
        /\ reference = SeedTable(4, TRUE) =>
              Values(castor_calibration) = <<10, 20, 30, 32>>

(* C3, witness: the Castor sweep of that seed ended with every guess accepted. *)
C3_Witness ==
    /\ CastorSweepDone
    /\ adjusts = 0
    /\ reference = SeedTable(4, TRUE)
    /\ castor_calibration[4].code = 32


----------------------------------------------------------------------------
IsEntry(e) == e.op = "write_lut_entry"

(* C4: when upload is requested, a finished run has issued exactly one
   write_lut_entry per table item, with indices 0, 1, .., N-1 in that order, and
   then exactly one write_lut; before the end the calls issued so far are a
   prefix of that sequence; with dry-run no such call is ever issued. *)
C4_LutUpload ==
    /\ ~save => lut = <<>>
    /\ \A i \in 1..Len(lut) :
          IF i <= Len(castor_calibration)
          THEN IsEntry(lut[i]) /\ lut[i].n = i - 1
          ELSE lut[i] = LutCommit /\ i = Len(castor_calibration) + 1
    /\ (pc = "done" /\ save) => Len(lut) = Len(castor_calibration) + 1

(* C4, witness: a run with upload requested ends, four entries and the commit
   written. *)
C4_Witness ==
    /\ pc = "done"
    /\ save
    /\ Len(castor_calibration) = 4
    /\ Len(lut) = 5
    /\ lut[5] = LutCommit

(* the code at frequency f on the line through (x_1, y_1) and (x_2, y_2),
   in point-slope form *)
OnLine(x_1, y_1, x_2, y_2, f) ==
    RatAdd(RatInt(y_1),
           RatDiv(RatMul(RatInt(y_2 - y_1), RatSub(f, x_1)), RatSub(x_2, x_1)))

FrequencyAt(k) == timer_period_to_frequency(reference[k + 1].period)

(* C5: at every sweep index n > 2 the guess handed to the seek is
   min(4095, round(line(f_n))) for the line through (f_{n-1}, code accepted at
   n-1) and (f_0, code accepted at 0); at n <= 2 it is the table's code for the
   period, raised to the previously accepted code when below it. *)
C5_StartingGuess ==
    pc \in {"set_period", "seek", "adjust"} =>
        LET acc == accepted[oscillator]
        IN  IF n > 2
            THEN dac_code = Min(MaxCode,
                     Round(OnLine(FrequencyAt(n - 1), acc[n], FrequencyAt(0), acc[1],
                                  FrequencyAt(n))))
            ELSE LET previous == IF n = 0 THEN 0 ELSE acc[n]
                     current == period_to_dac_code[n + 1].code
                 IN  dac_code = IF current < previous THEN previous ELSE current

(* C5, witness: the seek of index 3 starts from an extrapolated guess that is
   neither the table's code nor the cap, off two different accepted codes. *)
C5_Witness ==
    /\ pc = "seek"
    /\ n = 3
    /\ accepted[oscillator][1] # accepted[oscillator][3]
    /\ dac_code # period_to_dac_code[4].code
    /\ dac_code # MaxCode

(* C6, as stated: every code written with set_dac, stored in a table, saved
   or sent in a LUT entry is in 0..4095. *)
CodeOk(c) == c \in 0..MaxCode
TableOk(table) == \A i \in 1..Len(table) : CodeOk(table[i].code)
C6_CodesInRange ==
    /\ \A i \in 1..Len(calls) : calls[i].op = "set_dac" => CodeOk(calls[i].b)
    /\ TableOk(period_to_dac_code)
    /\ TableOk(castor_calibration)
    /\ TableOk(pollux_calibration)
    /\ \A i \in 1..Len(local_copy) :
          TableOk(local_copy[i].castor) /\ TableOk(local_copy[i].pollux)
    /\ \A i \in 1..Len(lut) : CodeOk(lut[i].castor_code) /\ CodeOk(lut[i].pollux_code)

(* C7: the local copy is written at most once, only after both sweeps have
   returned and with their tables, before any LUT call, and a finished run has
   written it exactly once, dry-run or not. *)
C7_LocalSave ==
    /\ Len(local_copy) <= 1
    /\ local_copy # <<>> =>
          /\ CastorSweepDone /\ PolluxSweepDone
          /\ local_copy[1] = [castor |-> castor_calibration, pollux |-> pollux_calibration]
    /\ lut # <<>> => Len(local_copy) = 1
    /\ pc \in {"upload", "close", "done"} => Len(local_copy) = 1

(* C7, witness: a dry run ends with the local copy written. *)
C7_Witness ==
    /\ pc = "done"
    /\ ~save
    /\ Len(local_copy) = 1
    /\ lut = <<>>

(* C8: until continue_when_ready has returned no sweep has begun: no call of a
   sweep, a seek or a measurement is issued, no code is accepted and the tables
   are unchanged. *)
C8_GateBeforeSweeps ==
    ~gate_passed =>
        /\ \A i \in 1..Len(calls) : calls[i].by = "run"
        /\ period_to_dac_code = reference
        /\ accepted = [o \in {0, 1} |-> <<>>]
        /\ sweep_order = <<>>
        /\ ~CastorSweepDone /\ ~PolluxSweepDone
        /\ ~InSweep

(* C8, witness: the run waits at the gate, scope set up, nothing swept. *)
C8_Witness ==
    /\ pc = "gate"
    /\ ~gate_passed
    /\ Len(calls) = 2

(* C9: the sweeps' calls address oscillator 0 first and oscillator 1 after it,
   never 0 again; until the Castor sweep returns every sweep call addresses
   oscillator 0, DAC channel 0 and scope channel c1 (c2 disabled), and after it
   oscillator 1, DAC channel 2 and scope channel c2 (c1 disabled). *)
C9_SweepsSequential ==
    /\ sweep_order \in {<<>>, <<0>>, <<0, 1>>}
    /\ \A i \in 1..Len(calls) :
          LET c == calls[i]
              o == IF CastorSweepDone THEN 1 ELSE 0
          IN  c.by # "run" =>
                /\ ~PolluxSweepDone
                /\ c.op = "set_period" => c.a = o
                /\ c.op = "set_dac" => c.a = (IF o = 0 THEN 0 ELSE 2)
                /\ c.op \in {"enable_channel", "set_trigger_level", "show_measurement",
                             "get_max"} => c.a = (IF o = 0 THEN 1 ELSE 2)
                /\ c.op = "disable_channel" => c.a = (IF o = 0 THEN 2 ELSE 1)

(* C9, witness: the Pollux sweep writes DAC channel 2 after the Castor sweep. *)
C9_Witness ==
    /\ sweep_order = <<0, 1>>
    /\ CastorSweepDone
    /\ Len(calls) = 1
    /\ calls[1].op = "set_dac"
    /\ calls[1].a = 2

(* C10: from the start of the upload the two tables have the period sequence of
   the reference table, and every LUT entry n carries the n-th period of both
   tables with the Castor and the Pollux code of that period; no LUT entry is
   ever written while the period sequences differ. *)
C10_SharedPeriods ==
    /\ CastorSweepDone => Keys(castor_calibration) = Keys(reference)
    /\ PolluxSweepDone => Keys(pollux_calibration) = Keys(reference)
    /\ lut # <<>> => Keys(castor_calibration) = Keys(pollux_calibration)
    /\ \A i \in 1..Len(lut) :
          IsEntry(lut[i]) =>
              /\ lut[i].period = castor_calibration[lut[i].n + 1].period
              /\ lut[i].period = pollux_calibration[lut[i].n + 1].period
              /\ lut[i].castor_code = castor_calibration[lut[i].n + 1].code
              /\ lut[i].pollux_code = pollux_calibration[lut[i].n + 1].code

(* C10, witness: the upload has written an entry whose two codes differ. *)
C10_Witness ==
    /\ pc = "upload"
    /\ Len(lut) = 3
    /\ lut[3].castor_code # lut[3].pollux_code


----------------------------------------------------------------------------
(* _set_scope_time_division on its own: the frequencies 0, 1/2, 1, .. up to
   MaxFrequency are handed to it, one per behaviour *)

\* largest frequency handed to _set_scope_time_division, in Hz
MaxFrequency == 1300

FrequencyInputs == {Rat(k, 2) : k \in 0..(2 * MaxFrequency)}

(* the variables of run() and of the sweep, at rest *)
AtRest ==
    /\ reference = SeedTable(2, TRUE)
    /\ period_to_dac_code = DictCopy(reference)
    /\ save = FALSE
    /\ fault = "none"
    /\ gate_passed = FALSE
    /\ oscillator = 0
    /\ n = 0
    /\ period = 0
    /\ dac_code = 0
    /\ last_dac_code = 0
    /\ charge_code = 0
    /\ calibrated_code = 0
    /\ castor_calibration = <<>>
    /\ pollux_calibration = <<>>
    /\ local_copy = <<>>
    /\ lut = <<>>
    /\ lut_n = 0
    /\ checksum = 0
    /\ adjusts = 0
    /\ accepted = [o \in {0, 1} |-> <<>>]
    /\ lowered = [o \in {0, 1} |-> FALSE]
    /\ sweep_order = <<>>
    /\ dac = [channel \in {0, 2} |-> -1]
    /\ seek_writes = <<>>
    /\ periods_set = <<>>
    /\ fault_at = "none"
    /\ calls = <<>>

DivisionInit ==
    /\ AtRest
    /\ pc = "set_scope_time_division"
    /\ freq \in FrequencyInputs
    /\ time_division = "unset"

(* _set_scope_time_division, lines 49-61 *)
SetScopeTimeDivision ==
    /\ pc = "set_scope_time_division"
    /\ time_division' = set_scope_time_division(freq)
    /\ calls' = <<Call("sweep", "set_time_division", DivisionMicros(time_division'), 0)>>
    /\ pc' = "division_set"
    /\ UNCHANGED <<reference, period_to_dac_code, save, fault, gate_passed, adjusts,
                   sweepVars, runVars, sweep_order, freq, dac, seek_writes,
                   periods_set, fault_at>>

DivisionNext == SetScopeTimeDivision

DivisionSpec == DivisionInit /\ [][DivisionNext]_vars

(* C11: for every frequency the division set is the one of the first threshold
   among 1200, 700, 180, 90, 46 Hz the frequency is strictly above, 5ms when
   above none; no lower frequency gets a smaller division; 1200 Hz gives 200us
   and 1201 Hz gives 100us. *)
C11_TimeDivision ==
    pc = "division_set" =>
        LET above(hz) == freq[1] > hz * freq[2]
        IN  /\ time_division \in {"100us", "200us", "500us", "1ms", "2ms", "5ms"}
            /\ calls = <<Call("sweep", "set_time_division",
                              DivisionMicros(time_division), 0)>>
            /\ (time_division = "100us") = above(1200)
            /\ (time_division = "200us") = (above(700) /\ ~above(1200))
            /\ (time_division = "500us") = (above(180) /\ ~above(700))
            /\ (time_division = "1ms") = (above(90) /\ ~above(180))
            /\ (time_division = "2ms") = (above(46) /\ ~above(90))
            /\ (time_division = "5ms") = ~above(46)
            /\ \A g \in FrequencyInputs :
                  g[1] * freq[2] <= freq[1] * g[2] =>
                      DivisionMicros(set_scope_time_division(g))
                          >= DivisionMicros(time_division)
            /\ freq = RatInt(1200) => time_division = "200us"
            /\ freq = RatInt(1201) => time_division = "100us"

(* C11, witness: 1200 Hz has been given the division 200us. *)
C11_Witness ==
    /\ pc = "division_set"
    /\ freq = RatInt(1200)
    /\ time_division = "200us"


----------------------------------------------------------------------------
(* The upload on its own: run() after the local copy is written, upload
   requested, for tables whose codes the sweeps may have accepted *)

\* codes of the tables handed to the upload
UploadCodes == {1, 2, 4, 4095}

TableOf(codes) == [i \in 1..Len(codes) |-> Item(100 * i, codes[i])]

UploadInit ==
    /\ \E len \in 2..MaxLen :
          /\ reference = SeedTable(len, TRUE)
          /\ \E codes \in [1..len -> UploadCodes] :
                castor_calibration = TableOf(codes)
          /\ pollux_calibration \in {castor_calibration, TableOf([i \in 1..len |-> 7])}
    /\ period_to_dac_code = pollux_calibration
    /\ save = TRUE
    /\ pc = "upload"
    /\ fault = "none"
    /\ gate_passed = TRUE
    /\ oscillator = 1
    /\ n = Len(reference)
    /\ period = reference[Len(reference)].period
    /\ dac_code = pollux_calibration[n].code
    /\ last_dac_code = pollux_calibration[n].code
    /\ charge_code = pollux_calibration[n].code
    /\ calibrated_code = pollux_calibration[n].code
    /\ local_copy = <<[castor |-> castor_calibration, pollux |-> pollux_calibration]>>
    /\ lut = <<>>
    /\ lut_n = 0
    /\ checksum = 0
    /\ adjusts = 0
    /\ accepted = (0 :> Values(castor_calibration)) @@ (1 :> Values(pollux_calibration))
    /\ lowered = [o \in {0, 1} |-> FALSE]
    /\ sweep_order = <<0, 1>>
    /\ freq = timer_period_to_frequency(period)
    /\ time_division = set_scope_time_division(freq)
    /\ dac = (0 :> castor_calibration[n].code) @@ (2 :> pollux_calibration[n].code)
    /\ seek_writes = <<pollux_calibration[n].code>>
    /\ periods_set = Keys(reference)
    /\ fault_at = "none"
    /\ calls = <<>>

UploadNext ==
    \/ WriteLutEntry
    \/ WriteLut
    \/ Close

UploadSpec == UploadInit /\ [][UploadNext]_vars

Bit(x, b) == (x \div (2 ^ b)) % 2

(* C12: the checksum computed after the upload is the XOR of the Castor codes
   whatever the order they are taken in: it equals the XOR over every
   permutation of the table, each of its bits is the parity of that bit over the
   Castor codes alone, and the codes 1, 2, 4 give 7. *)
C12_Checksum ==
    pc \in {"close", "done"} =>
        LET codes == Values(castor_calibration)
            count(b) == Cardinality({i \in 1..Len(codes) : Bit(codes[i], b) = 1})
        IN  /\ \A perm \in Permutations(1..Len(codes)) :
                  checksum = XorAll([i \in 1..Len(codes) |-> codes[perm[i]]])
            /\ checksum \in 0..MaxCode
            /\ \A b \in 0..11 : Bit(checksum, b) = count(b) % 2
            /\ codes = <<1, 2, 4>> => checksum = 7

(* C12, witness: the upload of Castor codes 1, 2, 4 beside other Pollux codes
   has ended with checksum 7. *)
C12_Witness ==
    /\ pc = "done"
    /\ Values(castor_calibration) = <<1, 2, 4>>
    /\ Values(pollux_calibration) = <<7, 7, 7>>
    /\ checksum = 7


----------------------------------------------------------------------------
(* C13, as stated: at every sweep index n >= 1 the seek's starting guess is not
   less than the code accepted at index n-1. *)
C13_GuessNotBelowAccepted ==
    (pc \in {"set_period", "seek", "adjust"} /\ n >= 1) =>
        dac_code >= accepted[oscillator][n]

(* C13, amended: at the sweep indices 1 and 2 the seek's starting guess is not
   less than the code accepted at the previous index (the accepted code, not the
   previous guess), and at index 0 it is not less than 0; from index 3 on the
   extrapolated guess replaces the clamped code and is not bound by it. *)
C13_ClampBelowExtrapolation ==
    (pc \in {"set_period", "seek", "adjust"} /\ n <= 2) =>
        /\ dac_code >= (IF n = 0 THEN 0 ELSE accepted[oscillator][n])
        /\ dac_code >= period_to_dac_code[n + 1].code
        /\ dac_code \in {period_to_dac_code[n + 1].code,
                         IF n = 0 THEN 0 ELSE accepted[oscillator][n]}
        /\ last_dac_code = (IF n = 0 THEN 0 ELSE accepted[oscillator][n])

(* C13, witness: at index 1 the guess was raised to the accepted code of index
   0, which the operator had set above the guess of index 0. *)
C13_Witness ==
    /\ pc = "seek"
    /\ n = 1
    /\ dac_code = accepted[oscillator][1]
    /\ dac_code > period_to_dac_code[2].code
    /\ dac_code = 4095
    /\ reference[1].code < 4095


----------------------------------------------------------------------------
Last(seq) == seq[Len(seq)]

(* C14: the first DAC write of a seek carries the starting guess, on the DAC
   channel of the oscillator; every value the operator yields is written to
   that channel, the other channel being left alone; the seek returns the last
   value written, which is the starting guess when nothing was yielded, so the
   channel holds the returned code when the seek returns. *)
C14_ManualSeek ==
    LET channel == IF oscillator = 0 THEN 0 ELSE 2
        other == IF oscillator = 0 THEN 2 ELSE 0
        untouched == IF oscillator = 0 THEN reference[1].code
                     ELSE Last(castor_calibration).code
    IN  /\ pc = "adjust" =>
              /\ seek_writes # <<>>
              /\ seek_writes[1] = dac_code
              /\ charge_code = Last(seek_writes)
              /\ calls = <<Call("seek", "set_dac", channel, charge_code)>>
              /\ dac[channel] = charge_code
              /\ dac[other] = untouched
        /\ pc = "measure" =>
              /\ calibrated_code = Last(seek_writes)
              /\ Len(seek_writes) = 1 => calibrated_code = dac_code
              /\ Last(accepted[oscillator]) = calibrated_code
              /\ dac[channel] = calibrated_code
              /\ dac[other] = untouched

(* C14, witness: a seek has returned the second of two yielded values. *)
C14_Witness ==
    /\ pc = "measure"
    /\ Len(seek_writes) = 3
    /\ seek_writes[2] = 4095
    /\ calibrated_code = 2000
    /\ dac_code # 2000


----------------------------------------------------------------------------
SweepPoints == {"castor", "pollux", "loop", "set_period", "seek", "adjust", "measure"}

(* C15: once a call has raised, the run has stopped for good: it issues no
   further call and takes no further step, and when the call was one of a sweep
   no local copy has been written and no LUT call has been made. *)
C15_FaultAborts ==
    fault # "none" =>
        /\ pc = "aborted"
        /\ calls = <<>>
        /\ ~ENABLED Next
        /\ fault_at \in SweepPoints => (local_copy = <<>> /\ lut = <<>>)

(* C15, witness: the Pollux sweep was stopped by a fault of a DAC write, the
   Castor sweep done, nothing saved. *)
C15_Witness ==
    /\ pc = "aborted"
    /\ fault = "transport"
    /\ fault_at = "adjust"
    /\ oscillator = 1
    /\ CastorSweepDone
    /\ local_copy = <<>>

----------------------------------------------------------------------------
(* What a run does and produces, the scope's readbacks left out *)
decisions == <<reference, period_to_dac_code, save, fault, gate_passed, oscillator,
               period, dac_code, charge_code, calibrated_code, castor_calibration,
               pollux_calibration, local_copy, lut, lut_n, checksum, adjusts,
               accepted, lowered, sweep_order, freq, time_division, dac,
               seek_writes, periods_set, fault_at>>

IsReadback(call) == call.op = "get_max"

(* C16: the readbacks of the scope enter the run in the measuring step only,
   and that step's outcome does not depend on them: whatever was read back, the
   step issues no device command, keeps the table, the guesses and the device
   as they are, records the seek's code as the last code and moves on to the
   next point. *)
C16_ReadbackUnused ==
    [][/\ pc # "measure" => \A i \in DOMAIN calls' : ~IsReadback(calls'[i])
       /\ (pc = "measure" /\ pc' # "aborted") =>
             /\ Len(calls') = AVERAGE_COUNT
             /\ \A i \in DOMAIN calls' :
                   /\ IsReadback(calls'[i])
                   /\ calls'[i].a = ScopeChannel(oscillator)
             /\ last_dac_code' = calibrated_code
             /\ n' = n + 1
             /\ pc' = "loop"
             /\ UNCHANGED decisions]_vars

(* C16, witness: a point was measured with two different readbacks *)
C16_Witness ==
    /\ pc = "loop"
    /\ n = 2
    /\ Len(calls) = AVERAGE_COUNT
    /\ IsReadback(calls[1])
    /\ calls[1].b = 3
    /\ calls[2].b = 0
    /\ last_dac_code = calibrated_code
    /\ calibrated_code # 0

----------------------------------------------------------------------------
(* C17: the progress fraction n / (len(T) - 1) is guarded: no run stops with a
   division fault, a run on a one-entry table included. *)
C17_NoDivisionFault ==
    fault # "ZeroDivisionError"

----------------------------------------------------------------------------
(* C18: from the return of the Castor sweep on, through the whole Pollux sweep,
   the table run holds as Castor's has the reference periods and, entry for
   entry, the codes accepted during the Castor sweep; the table saved under "castor" and the castor_code of every LUT entry are
   those codes. *)
C18_CastorTableOwned ==
    /\ CastorSweepDone =>
          /\ Keys(castor_calibration) = Keys(reference)
          /\ Values(castor_calibration) = accepted[0]
    /\ \A i \in 1..Len(local_copy) :
          Values(local_copy[i].castor) = accepted[0]
    /\ \A i \in 1..Len(lut) :
          IsEntry(lut[i]) => lut[i].castor_code = accepted[0][lut[i].n + 1]

(* C18, witness: a finished run with upload in which the Pollux sweep has
   overwritten every code of the shared table with a different one. *)
C18_Witness ==
    /\ pc = "done"
    /\ Len(lut) = 3
    /\ Len(local_copy) = 1
    /\ Values(local_copy[1].castor) = accepted[0]
    /\ \A i \in 1..Len(castor_calibration) :
          period_to_dac_code[i].code # castor_calibration[i].code

----------------------------------------------------------------------------
(* The table the current sweep started from *)
SweepStart == IF oscillator = 0 THEN reference ELSE castor_calibration

(* Number of points of the current sweep whose set_period has been issued *)
PeriodsIssued == IF pc \in {"seek", "adjust", "measure"} THEN n + 1 ELSE n

(* Number of points of the current sweep whose seek has returned *)
PointsSought == IF pc = "measure" THEN n + 1 ELSE n

(* C19: in a sweep the set_period calls issued so far are the periods of the
   table in iteration order, one per point begun; a DAC write of a seek comes
   after the set_period of its point; the entries of the points whose seek has
   returned hold the returned codes, the entry of a point is written before the
   next point's set_period, and the entries of the points not yet sought are
   those the sweep started with. *)
C19_PointOrdering ==
    InSweep =>
        /\ Keys(period_to_dac_code) = Keys(reference)
        /\ periods_set = SubSeq(Keys(reference), 1, PeriodsIssued)
        /\ Len(accepted[oscillator]) = PointsSought
        /\ \A i \in 1..Len(period_to_dac_code) :
              period_to_dac_code[i].code =
                  IF i <= PointsSought THEN accepted[oscillator][i]
                  ELSE SweepStart[i].code
        /\ \A i \in DOMAIN calls :
              /\ calls[i].op = "set_period" =>
                    /\ pc = "seek"
                    /\ calls = <<Call("sweep", "set_period", oscillator,
                                      period_to_dac_code[n + 1].period)>>
                    /\ PointsSought = n
              /\ calls[i].op = "set_dac" =>
                    /\ pc = "adjust"
                    /\ Len(periods_set) = n + 1
                    /\ Last(periods_set) = period_to_dac_code[n + 1].period
                    /\ period = Last(periods_set)

(* C19, witness: the Pollux sweep has sought its second point and changed its
   code; the third point still has the code of the Castor sweep. *)
C19_Witness ==
    /\ pc = "measure"
    /\ oscillator = 1
    /\ n = 1
    /\ Len(period_to_dac_code) >= 3
    /\ Len(periods_set) = 2
    /\ period_to_dac_code[2].code # castor_calibration[2].code
    /\ period_to_dac_code[3].code = castor_calibration[3].code

====
